---------------------------- MODULE Spec2Model ----------------------------
(***************************************************************************)
(* Model of webpack-babel-multi-target-plugin:                             *)
(*   - TargetingPlugin (babel.target.single.entry.dependency.ts): blind    *)
(*     assignment, module / dependency targeting, the exclusion policy;    *)
(*   - WebpackBabelMultiTargetPlugin (webpack.babel.multi.target.plugin.js)*)
(*     child compilations and the html-webpack-plugin hooks.               *)
(*                                                                         *)
(* Strings are modelled structurally.  A request or resource string is a   *)
(* record [path, tags]: the text before the tags and the sequence of keys  *)
(* of the babelTarget tags appended to it.  A file path is a sequence of   *)
(* path segments.  JavaScript values of package.json fields are records    *)
(* [t |-> <typeof>, ...].  A call that may throw returns "true", "false"   *)
(* or the name of the error.                                               *)
(***************************************************************************)
EXTENDS Integers, Sequences, FiniteSets, TLC

VARIABLES
    pol,         \* exclusion policy: one isTranspiledRequest call (inputs, result)
    config,      \* TargetingPlugin constructor arguments (exclude, doNotTarget, externals)
    remainingTargets, \* TargetingPlugin.remainingTargets, (issuer, key) -> remaining targets
    calls,       \* history: getBlindTarget calls per (issuer, key) in the current build cycle
    cycle,       \* history: how the current build cycle began, and what preceded it
    babelLoaders,\* TargetingPlugin.babelLoaders, target key -> cached loader entry
    module,      \* the module last handed to the normalModuleFactory "module" hook
    last,        \* history: the last handler step (its inputs, outputs, error)
    orch         \* WebpackBabelMultiTargetPlugin: options, child compilations, tags

(***************************************************************************)
(* Bounds                                                                  *)
(***************************************************************************)
\* number of caller-supplied exclusion patterns offered to the constructor
MaxExclude == 1
\* number of configured targets
NumTargets == 2
\* number of options objects handed to the WebpackBabelMultiTargetPlugin constructor
MaxOptions == 2
\* number of tags handed to the alter-asset-tags hook
MaxTags == 2

Range(s) == { s[i] : i \in DOMAIN s }

(***************************************************************************)
(* JavaScript values                                                       *)
(***************************************************************************)
Undefined == [t |-> "undefined"]
Str(abs, segs) == [t |-> "string", abs |-> abs, segs |-> segs]
Bool(b) == [t |-> "boolean", b |-> b]
Num(n) == [t |-> "number", n |-> n]
Arr(items) == [t |-> "array", items |-> items]
Obj(vals) == [t |-> "object", vals |-> vals]

\* ToBoolean
Truthy(v) ==
    CASE v.t = "undefined" -> FALSE
      [] v.t = "string"    -> v.abs \/ v.segs # <<>>
      [] v.t = "boolean"   -> v.b
      [] v.t = "number"    -> v.n # 0
      [] OTHER             -> TRUE

\* the characters of the path segments used in the model
CharsOf(seg) ==
    CASE seg = "x"          -> <<"x">>
      [] seg = "lib"        -> <<"l", "i", "b">>
      [] seg = "index.js"   -> <<"i", "n", "d", "e", "x", ".", "j", "s">>
      [] seg = "."          -> <<".">>
      [] seg = ".."         -> <<".", ".">>
      [] OTHER              -> <<seg>>

RECURSIVE JoinChars(_)
JoinChars(segs) ==
    IF segs = <<>> THEN <<>>
    ELSE IF Len(segs) = 1 THEN CharsOf(segs[1])
    ELSE CharsOf(segs[1]) \o <<"/">> \o JoinChars(Tail(segs))

\* the characters of a string value, each as a one-character string value
StringChars(v) ==
    LET cs == (IF v.abs THEN <<"/">> ELSE <<>>) \o JoinChars(v.segs)
    IN  [i \in DOMAIN cs |-> IF cs[i] = "/" THEN Str(TRUE, <<>>)
                             ELSE Str(FALSE, <<cs[i]>>)]

\* Object.values(v)
ObjectValues(v) ==
    CASE v.t = "array"  -> v.items
      [] v.t = "object" -> v.vals
      [] v.t = "string" -> StringChars(v)
      [] OTHER          -> <<>>

(***************************************************************************)
(* path.resolve(pkgRoot, entry)                                            *)
(***************************************************************************)
RECURSIVE Normalize(_, _)
Normalize(done, rest) ==
    IF rest = <<>> THEN done
    ELSE IF Head(rest) = "." THEN Normalize(done, Tail(rest))
    ELSE IF Head(rest) = ".."
         THEN Normalize(IF done = <<>> THEN <<>> ELSE SubSeq(done, 1, Len(done) - 1),
                        Tail(rest))
    ELSE Normalize(Append(done, Head(rest)), Tail(rest))

\* a non-string argument makes path.resolve throw ERR_INVALID_ARG_TYPE
PathResolveThrows(entry) == entry.t # "string"

PathResolve(root, entry) ==
    IF entry.abs THEN Normalize(<<>>, entry.segs)
    ELSE Normalize(<<>>, root \o entry.segs)

\* resource === path.resolve(pkgRoot, entry): "true", "false" or "TypeError"
ResourceIsEntry(resource, root, entry) ==
    IF PathResolveThrows(entry) THEN "TypeError"
    ELSE IF resource.tags = <<>> /\ resource.path = PathResolve(root, entry)
         THEN "true" ELSE "false"

\* array.find(entry => resource === path.resolve(pkgRoot, entry)), from index i:
\* "true" (an entry was found), "false" or "TypeError"
RECURSIVE FindEntry(_, _, _, _)
FindEntry(items, i, resource, root) ==
    IF i > Len(items) THEN "false"
    ELSE LET r == ResourceIsEntry(resource, root, items[i])
         IN  IF r = "false" THEN FindEntry(items, i + 1, resource, root) ELSE r

(***************************************************************************)
(* Patterns (RegExp).  A pattern of the exclusion lists names a path       *)
(* segment and matches every string that contains it; RegExp.test coerces  *)
(* its argument to a string, so undefined is tested as "undefined".        *)
(***************************************************************************)
Pattern(seg) == [seg |-> seg]

TestedText(v) ==
    IF v.t = "undefined" THEN <<"undefined">> ELSE v.path

PatternTest(pattern, v) == pattern.seg \in Range(TestedText(v))

AnyPatternTest(patterns, v) == \E i \in DOMAIN patterns : PatternTest(patterns[i], v)

STANDARD_EXCLUDED == << Pattern("core-js") >>
KNOWN_EXCLUDED == << Pattern("angular") >>

(***************************************************************************)
(* TargetingPlugin.isTranspiledRequest                                     *)
(***************************************************************************)
ExcludedByStandard(ctx) == AnyPatternTest(STANDARD_EXCLUDED, ctx.resource)

ExcludedByKnown(ctx) == AnyPatternTest(KNOWN_EXCLUDED, ctx.resource)

ExcludedByCaller(ctx, exclude) == AnyPatternTest(exclude, ctx.resolve)

\* mutant: the "main" entry is not looked at
MainEntry_skipped(ctx) == "false"

\* pkg.main && resource === path.resolve(pkgRoot, pkg.main)
MainEntry(ctx) ==
    IF ~Truthy(ctx.pkg.main) THEN "false"
    ELSE ResourceIsEntry(ctx.resource, ctx.pkgRoot, ctx.pkg.main)

\* the three tests of the "browser" field, in order
BrowserEntry(ctx) ==
    LET b == ctx.pkg.browser
        asString == IF b.t = "string"
                    THEN ResourceIsEntry(ctx.resource, ctx.pkgRoot, b) ELSE "false"
        asArray  == IF b.t = "array"
                    THEN FindEntry(b.items, 1, ctx.resource, ctx.pkgRoot) ELSE "false"
        \* typeof(pkg.browser === 'object') is the string "boolean": always truthy
        asObject == FindEntry(ObjectValues(b), 1, ctx.resource, ctx.pkgRoot)
    IN  IF ~Truthy(b) THEN "false"
        ELSE IF asString # "false" THEN asString
        ELSE IF asArray # "false" THEN asArray
        ELSE asObject

\* "true": transpile, "false": excluded, "TypeError": the call throws
isTranspiledRequest(ctx, exclude) ==
    IF ExcludedByStandard(ctx) THEN "false"
    ELSE IF ExcludedByKnown(ctx) THEN "false"
    ELSE IF ExcludedByCaller(ctx, exclude) THEN "false"
    ELSE IF MainEntry(ctx) = "true" THEN "false"
    ELSE IF MainEntry(ctx) = "TypeError" THEN "TypeError"
    ELSE IF BrowserEntry(ctx) = "true" THEN "false"
    ELSE IF BrowserEntry(ctx) = "TypeError" THEN "TypeError"
    ELSE "true"

(***************************************************************************)
(* Inputs of the exclusion policy                                          *)
(***************************************************************************)
PkgRoot == <<"pkg">>

File(segs) == [t |-> "string", path |-> segs, tags |-> <<>>]
TaggedFile(segs, key) == [t |-> "string", path |-> segs, tags |-> <<key>>]

PolicyResources ==
    { File(<<"pkg", "index.js">>),
      File(<<"pkg", "lib", "index.js">>),
      File(<<"pkg", "x">>),
      File(<<"pkg", "core-js", "index.js">>),
      File(<<"pkg", "angular", "index.js">>),
      TaggedFile(<<"pkg", "index.js">>, "legacy") }

PolicyMains ==
    { Undefined,
      Str(FALSE, <<>>),
      Str(FALSE, <<"index.js">>),
      Str(FALSE, <<".", "lib", "..", "index.js">>),
      Str(TRUE, <<"pkg", "lib", "index.js">>) }

PolicyBrowsers ==
    { Undefined,
      Str(FALSE, <<"lib", "index.js">>),
      Str(FALSE, <<"index.js">>),
      Arr(<< Str(FALSE, <<"x">>), Str(FALSE, <<"lib", "index.js">>) >>),
      Arr(<< Bool(FALSE), Str(FALSE, <<"x">>) >>),
      Obj(<< Str(FALSE, <<".", "lib", "index.js">>) >>),
      Obj(<< Bool(FALSE), Str(FALSE, <<"index.js">>) >>),
      Obj(<< Str(FALSE, <<"x">>), Bool(FALSE) >>),
      Bool(TRUE),
      Num(5) }

ExcludePatterns == { Pattern("lib"), Pattern("x"), Pattern("undefined") }

\* the caller-supplied lists: up to MaxExclude patterns
ExcludeLists ==
    UNION { [1..n -> ExcludePatterns] : n \in 0..MaxExclude }

\* the resolve context webpack hands to afterResolve has no "resolve" field
PolicyContexts ==
    [ resource : PolicyResources,
      resolve  : {Undefined},
      pkgRoot  : {PkgRoot},
      pkg      : [main : PolicyMains, browser : PolicyBrowsers] ]

(***************************************************************************)
(* BabelTarget (./babel.target): the configured targets and the tag syntax *)
(***************************************************************************)
AllKeys == <<"legacy", "modern", "es2017", "es2018">>

\* this.targets: the targets are named by their position; 0 is "no target"
Targets == 1..NumTargets
NoTarget == 0
KeyOf(T) == AllKeys[T]

Request(path) == [t |-> "string", path |-> path, tags |-> <<>>]
Tagged(request, key) == [request EXCEPT !.tags = Append(@, key)]

isTaggedRequest(request) == request.tags # <<>>

\* target.getTargetedRequest(request): appends the target's tag if the request has none
getTargetedRequest(T, request) ==
    IF isTaggedRequest(request) THEN request ELSE Tagged(request, KeyOf(T))

\* BabelTarget.getTargetFromTag(request, targets): the registered target of the tag
getTargetFromTag(request) ==
    IF ~isTaggedRequest(request) THEN NoTarget
    ELSE IF \E T \in Targets : KeyOf(T) = request.tags[1]
         THEN CHOOSE T \in Targets : KeyOf(T) = request.tags[1]
         ELSE NoTarget

\* target.getTargetedAssetName(name): name + "." + key
getTargetedAssetName(T, name) == Append(name, KeyOf(T))

(***************************************************************************)
(* TargetingPlugin.isTargetedRequest / isExternalRequest                   *)
(***************************************************************************)
RegExp(seg) == [t |-> "regexp", seg |-> seg]
Function == [t |-> "function"]

\* NOT_TARGETED = [ /\.s?css$/ ]: the request ends with a style sheet extension
IsStyleSheet(request) ==
    /\ request.tags = <<>>
    /\ request.path # <<>>
    /\ request.path[Len(request.path)] \in {"style.css", "style.scss"}

\* this.doNotTarget = NOT_TARGETED.concat(doNotTarget || [])
DoNotTargetTest(doNotTarget, request) ==
    \/ IsStyleSheet(request)
    \/ doNotTarget.t = "array" /\ AnyPatternTest(doNotTarget.items, request)

\* request === externals, for a string externals element
SameText(request, str) == request.tags = <<>> /\ request.path = str.segs

RECURSIVE isExternalRequest(_, _)
RECURSIVE AnyExternal(_, _, _)
AnyExternal(request, items, i) ==
    IF i > Len(items) THEN "false"
    ELSE LET r == isExternalRequest(request, items[i])
         IN  IF r = "false" THEN AnyExternal(request, items, i + 1) ELSE r

\* "true", "false" or "Error" (an ExternalsFunctionElement)
isExternalRequest(request, externals) ==
    CASE ~Truthy(externals)       -> "false"
      [] externals.t = "array"    -> AnyExternal(request, externals.items, 1)
      [] externals.t = "function" -> "Error"
      [] externals.t = "string"   -> IF SameText(request, externals) THEN "true" ELSE "false"
      [] externals.t = "regexp"   -> IF PatternTest(externals, request) THEN "true" ELSE "false"
      [] externals.t = "object"   -> AnyExternal(request, externals.keys, 1)
      [] OTHER                    -> "false"

\* "true", "false" or "Error"
isTargetedRequest(cfg, request) ==
    IF DoNotTargetTest(cfg.doNotTarget, request) THEN "false"
    ELSE LET e == isExternalRequest(request, cfg.externals)
         IN  IF e = "true" THEN "false" ELSE IF e = "false" THEN "true" ELSE e

(***************************************************************************)
(* TargetingPlugin.getBlindTarget                                          *)
(***************************************************************************)
AllTargets == [i \in 1..NumTargets |-> i]

\* this.targets.slice(0)
FreshRemaining == AllTargets

\* the ledger once the entry of the pair exists
WithEntry(ledger, pair) ==
    IF pair \in DOMAIN ledger THEN ledger
    ELSE [p \in DOMAIN ledger \cup {pair} |->
            IF p = pair THEN FreshRemaining ELSE ledger[p]]

BlindThrows(ledger, pair) == WithEntry(ledger, pair)[pair] = <<>>

\* the target returned (NoTarget when BlindTargetingError is thrown)
BlindTarget(ledger, pair) ==
    IF BlindThrows(ledger, pair) THEN NoTarget ELSE Head(WithEntry(ledger, pair)[pair])

\* mutant: every pair's list is the one configured list, so shift() shortens all
BlindLedger_shared(ledger, pair) ==
    IF BlindThrows(ledger, pair) THEN WithEntry(ledger, pair)
    ELSE [p \in DOMAIN WithEntry(ledger, pair) |->
             IF WithEntry(ledger, pair)[p] = <<>> THEN <<>>
             ELSE Tail(WithEntry(ledger, pair)[p])]

\* the ledger after the call
BlindLedger(ledger, pair) ==
    IF BlindThrows(ledger, pair) THEN WithEntry(ledger, pair)
    ELSE [WithEntry(ledger, pair) EXCEPT ![pair] = Tail(@)]

(***************************************************************************)
(* TargetingPlugin.targetDependency / targetModule                         *)
(***************************************************************************)
\* dep.request is a non-empty string
HasRequest(request) ==
    request.t = "string" /\ (request.path # <<>> \/ request.tags # <<>>)

\* mutant: the eligibility of the dependency's request is not looked at
targetDependency_all(cfg, request, T) ==
    IF ~HasRequest(request) THEN [request |-> request, err |-> "none"]
    ELSE [request |-> getTargetedRequest(T, request), err |-> "none"]

\* the dependency's request after targetDependency(dep, babelTarget)
targetDependency(cfg, request, T) ==
    IF ~HasRequest(request) THEN [request |-> request, err |-> "none"]
    ELSE LET e == isTargetedRequest(cfg, request)
         IN  IF e = "Error" THEN [request |-> request, err |-> "Error"]
             ELSE IF e = "false" THEN [request |-> request, err |-> "none"]
             ELSE [request |-> getTargetedRequest(T, request), err |-> "none"]

\* a module as the normalModuleFactory creates it
NewModule(request) ==
    [request |-> request, babelTarget |-> NoTarget, hooks |-> <<>>]

\* mutant: an untagged request is targeted by blind assignment
targetModule_blind(cfg, ledger, issuer, m) ==
    LET e    == isTargetedRequest(cfg, m.request)
        T    == getTargetFromTag(m.request)
        pair == <<issuer, m.request>>
        B    == BlindTarget(ledger, pair)
        U    == IF T # NoTarget THEN T ELSE B
    IN  IF e # "true" \/ (isTaggedRequest(m.request) /\ T = NoTarget) \/ U = NoTarget
        THEN [module |-> m, ledger |-> ledger, err |-> "none", blind |-> FALSE]
        ELSE [module |-> [request |-> getTargetedRequest(U, m.request),
                          babelTarget |-> U, hooks |-> Append(m.hooks, U)],
              ledger |-> IF T # NoTarget THEN ledger ELSE BlindLedger(ledger, pair),
              err    |-> "none",
              blind  |-> T = NoTarget]

\* targetModule(module): the module, the ledger and the error afterwards
targetModule(cfg, ledger, issuer, m) ==
    LET e == isTargetedRequest(cfg, m.request)
        T == getTargetFromTag(m.request)
    IN  IF e = "Error"
        THEN [module |-> m, ledger |-> ledger, err |-> "Error", blind |-> FALSE]
        ELSE IF e = "false" \/ T = NoTarget
        THEN [module |-> m, ledger |-> ledger, err |-> "none", blind |-> FALSE]
        ELSE [module |-> [request     |-> getTargetedRequest(T, m.request),
                          babelTarget |-> T,
                          hooks       |-> Append(m.hooks, T)],
              ledger |-> ledger,
              err    |-> "none",
              blind  |-> FALSE]

\* module.addDependency(dep): the wrappers installed by targetModule run, the
\* last installed first, then the dependency is registered
RECURSIVE RunHooks(_, _, _, _)
RunHooks(cfg, hooks, i, request) ==
    IF i = 0 THEN [request |-> request, err |-> "none"]
    ELSE LET r == targetDependency(cfg, request, hooks[i])
         IN  IF r.err # "none" THEN r ELSE RunHooks(cfg, hooks, i - 1, r.request)

addDependency(cfg, m, request) == RunHooks(cfg, m.hooks, Len(m.hooks), request)

(***************************************************************************)
(* TargetingPlugin.getTargetFromContext / targetChunkNames                 *)
(***************************************************************************)
RECURSIVE FirstDependencyTarget(_, _)
FirstDependencyTarget(deps, i) ==
    IF i > Len(deps) THEN NoTarget
    ELSE IF deps[i].babelTarget # NoTarget THEN deps[i].babelTarget
    ELSE IF deps[i].originTarget # NoTarget THEN deps[i].originTarget
    ELSE FirstDependencyTarget(deps, i + 1)

\* mutant: the resolve data's context is looked at before contextInfo
getTargetFromContext_resolveDataFirst(ctx) ==
    IF ctx.rrdContext # NoTarget THEN ctx.rrdContext
    ELSE IF ctx.contextInfo # NoTarget THEN ctx.contextInfo
    ELSE FirstDependencyTarget(ctx.dependencies, 1)

getTargetFromContext(ctx) ==
    IF ctx.contextInfo # NoTarget THEN ctx.contextInfo
    ELSE IF ctx.rrdContext # NoTarget THEN ctx.rrdContext
    ELSE FirstDependencyTarget(ctx.dependencies, 1)

targetChunkNames(ctx, T) ==
    [ctx EXCEPT !.dependencies =
        [i \in DOMAIN @ |->
            IF @[i].groupName = <<>> THEN @[i]
            ELSE [@[i] EXCEPT !.groupName = getTargetedAssetName(T, @)]]]

(***************************************************************************)
(* TargetingPlugin.checkResolveTarget                                      *)
(***************************************************************************)
DependenciesThrow(cfg, deps, T) ==
    \E i \in DOMAIN deps : targetDependency(cfg, deps[i].request, T).err # "none"

TargetedDependencies(cfg, deps, T) ==
    [i \in DOMAIN deps |->
        [deps[i] EXCEPT !.request = targetDependency(cfg, @, T).request]]

\* mutant: the request and the resource are tagged for the first configured target
TagContext_first(ctx, T) ==
    LET c == targetChunkNames(ctx, T)
    IN  [c EXCEPT !.request  = getTargetedRequest(1, @),
                  !.resource = IF HasRequest(@) THEN getTargetedRequest(1, @) ELSE @]

\* mutant: the request and the resource are tagged whatever they carry
TagContext_always(ctx, T) ==
    LET c == targetChunkNames(ctx, T)
    IN  [c EXCEPT !.request  = Tagged(@, KeyOf(T)),
                  !.resource = IF HasRequest(@) THEN Tagged(@, KeyOf(T)) ELSE @]

\* the tail of checkResolveTarget: chunk names, request and resource
TagContext(ctx, T) ==
    LET c == targetChunkNames(ctx, T)
    IN  [c EXCEPT !.request  = getTargetedRequest(T, @),
                  !.resource = IF HasRequest(@) THEN getTargetedRequest(T, @) ELSE @]

checkResolveTarget(cfg, ledger, ctx, hasLoader) ==
    LET targeted   == isTargetedRequest(cfg, ctx.request)
        transpiled == isTranspiledRequest(ctx, cfg.exclude)
        fromTag    == getTargetFromTag(ctx.request)
        fromCtx    == getTargetFromContext(ctx)
        pair       == <<ctx.issuer, ctx.request>>
        Return(c, l, e, b, T) ==
            [ctx |-> c, ledger |-> l, err |-> e, blind |-> b, target |-> T]
    IN  IF targeted = "Error" THEN Return(ctx, ledger, "Error", FALSE, NoTarget)
        ELSE IF targeted = "false" THEN Return(ctx, ledger, "none", FALSE, NoTarget)
        ELSE IF transpiled = "TypeError"
             THEN Return(ctx, ledger, "TypeError", FALSE, NoTarget)
        ELSE IF transpiled = "false" \/ ~hasLoader
             THEN Return(ctx, ledger, "none", FALSE, NoTarget)
        ELSE IF fromTag # NoTarget
             THEN Return(targetChunkNames(ctx, fromTag), ledger, "none", FALSE, fromTag)
        ELSE IF fromCtx # NoTarget
             THEN IF DependenciesThrow(cfg, ctx.dependencies, fromCtx)
                  THEN Return(ctx, ledger, "Error", FALSE, NoTarget)
                  ELSE Return(TagContext([ctx EXCEPT !.dependencies =
                                    TargetedDependencies(cfg, @, fromCtx)], fromCtx),
                              ledger, "none", FALSE, fromCtx)
        ELSE IF BlindThrows(ledger, pair)
             THEN Return(ctx, BlindLedger(ledger, pair), "BlindTargetingError",
                         TRUE, NoTarget)
        ELSE Return(TagContext(ctx, BlindTarget(ledger, pair)),
                    BlindLedger(ledger, pair), "none", TRUE, BlindTarget(ledger, pair))

(***************************************************************************)
(* TargetingPlugin.replaceLoaders / getTargetedBabelLoader                 *)
(***************************************************************************)
BabelLoaderPath == "babel-loader"

\* TargetingPlugin.loader(loader): a marker entry wrapping the user's loader
MarkerLoader(loader, ident) ==
    [loader |-> loader, ident |-> ident,
     options |-> [kind |-> "marker", loaderOptions |-> "user"]]

PlainLoader(loader, ident) ==
    [loader |-> loader, ident |-> ident, options |-> [kind |-> "plain"]]

IsMarker(entry) == entry.options.kind = "marker"

EffectiveLoader(entry) ==
    [loader |-> entry.loader, ident |-> entry.ident, options |-> [kind |-> "plain"]]

\* Object.assign({}, loader, { loader: babelLoaderPath, options: babelTarget.options })
NewTargetedLoader(effective, T) ==
    [loader |-> BabelLoaderPath, ident |-> effective.ident,
     options |-> [kind |-> "target", key |-> KeyOf(T)]]

\* mutant: a new loader object is stored on every call
getTargetedBabelLoader_fresh(cache, effective, T) ==
    [k \in DOMAIN cache \cup {KeyOf(T)} |->
        IF k = KeyOf(T) THEN NewTargetedLoader(effective, T) ELSE cache[k]]

\* getTargetedBabelLoader(loader, babelTarget): this.babelLoaders afterwards; the
\* entry of the target's key is created on first use only
getTargetedBabelLoader(cache, effective, T) ==
    IF KeyOf(T) \in DOMAIN cache THEN cache
    ELSE [k \in DOMAIN cache \cup {KeyOf(T)} |->
             IF k = KeyOf(T) THEN NewTargetedLoader(effective, T) ELSE cache[k]]

\* the cache and the replaced chain after the marker entries from index i on
RECURSIVE ReplaceFrom(_, _, _, _, _)
ReplaceFrom(cache, done, entries, i, T) ==
    IF i > Len(entries) THEN [cache |-> cache, loaders |-> done]
    ELSE LET entry == entries[i]
             eff   == EffectiveLoader(entry)
             key   == KeyOf(T)
             c2    == getTargetedBabelLoader(cache, eff, T)
         IN  IF ~IsMarker(entry)
             THEN ReplaceFrom(cache, Append(done, entry), entries, i + 1, T)
             ELSE IF T = NoTarget
             THEN ReplaceFrom(cache, done, entries, i + 1, T)
             ELSE IF entry.loader = BabelLoaderPath
             THEN ReplaceFrom(c2, Append(done, c2[key]), entries, i + 1, T)
             ELSE ReplaceFrom(cache, Append(done, eff), entries, i + 1, T)

replaceLoaders(cfg, cache, ctx) ==
    LET transpiled == isTranspiledRequest(ctx, cfg.exclude)
        T == IF transpiled = "true" THEN getTargetFromContext(ctx) ELSE NoTarget
        r == ReplaceFrom(cache, <<>>, ctx.loaders, 1, T)
    IN  IF transpiled = "TypeError"
        THEN [ctx |-> ctx, cache |-> cache, err |-> "TypeError"]
        ELSE [ctx |-> [ctx EXCEPT !.loaders = r.loaders], cache |-> r.cache,
              err |-> "none"]

\* the loaders of the context hold an entry made by TargetingPlugin.loader
HasTargetingLoader(ctx) ==
    \E i \in DOMAIN ctx.loaders : IsMarker(ctx.loaders[i])

\* the outcome of afterResolve: c of checkResolveTarget, r of replaceLoaders
ResolveOutcome(c, r) ==
    [ctx |-> r.ctx, ledger |-> c.ledger, cache |-> r.cache, err |-> r.err,
     blind |-> c.blind, target |-> c.target]

\* replaceLoaders runs unless checkResolveTarget has thrown
ThenReplaceLoaders(cfg, cache, c) ==
    IF c.err # "none"
    THEN ResolveOutcome(c, [ctx |-> c.ctx, cache |-> cache, err |-> c.err])
    ELSE ResolveOutcome(c, replaceLoaders(cfg, cache, c.ctx))

\* afterResolve(resolveContext): checkResolveTarget, then replaceLoaders
afterResolve(cfg, ledger, cache, ctx) ==
    ThenReplaceLoaders(cfg, cache,
        checkResolveTarget(cfg, ledger, ctx, HasTargetingLoader(ctx)))

(***************************************************************************)
(* TargetingPlugin.targetLazyModules                                       *)
(***************************************************************************)
LazyMarker == "$$_lazy_route_resource"

\* resolveContext.resource.endsWith('$$_lazy_route_resource')
IsLazyRoute(lctx) ==
    /\ lctx.mode = "lazy"
    /\ HasRequest(lctx.resource)
    /\ lctx.resource.tags = <<>>
    /\ lctx.resource.path # <<>>
    /\ lctx.resource.path[Len(lctx.resource.path)] = LazyMarker

targetLazyModules(cfg, ledger, lctx) ==
    LET pair == <<lctx.context, lctx.resource>>
        T    == BlindTarget(ledger, pair)
        res  == getTargetedRequest(T, lctx.resource)
        Return(c, l, e, b, U) ==
            [ctx |-> c, ledger |-> l, err |-> e, blind |-> b, target |-> U]
    IN  IF ~IsLazyRoute(lctx) THEN Return(lctx, ledger, "none", FALSE, NoTarget)
        ELSE IF BlindThrows(ledger, pair)
             THEN Return(lctx, BlindLedger(ledger, pair), "BlindTargetingError",
                         TRUE, NoTarget)
        ELSE IF DependenciesThrow(cfg, lctx.dependencies, T)
             THEN Return([lctx EXCEPT !.resource = res, !.targetMap = @ \cup {<<res, T>>},
                                      !.wrapped = T],
                         BlindLedger(ledger, pair), "Error", TRUE, T)
        ELSE Return([lctx EXCEPT !.resource = res, !.targetMap = @ \cup {<<res, T>>},
                                 !.wrapped = T,
                                 !.dependencies = TargetedDependencies(cfg, @, T)],
                    BlindLedger(ledger, pair), "none", TRUE, T)

\* what the original resolveDependencies hands to its callback (err, dependencies)
OriginalResult(err, produced, deps) ==
    [err |-> err, produced |-> produced, dependencies |-> deps]

\* what the caller's callback has received: called n times, last with (err, deps)
Callback(n, err, deps) ==
    [calls |-> n, err |-> err, dependencies |-> deps]

WrapperReturn(thrown, cb) == [thrown |-> thrown, cb |-> cb]

\* mutant: the dependencies are handed back as the original produced them
resolveDependencies_untargeted(cfg, T, result) ==
    IF ~result.produced THEN WrapperReturn("TypeError", Callback(0, "none", <<>>))
    ELSE WrapperReturn("none", Callback(1, "null", result.dependencies))

\* the resolveDependencies installed by targetLazyModules for target T: the
\* callback it hands to the original targets the dependencies (undefined
\* dependencies have no forEach) and calls cb(null, dependencies)
resolveDependencies(cfg, T, result) ==
    IF ~result.produced THEN WrapperReturn("TypeError", Callback(0, "none", <<>>))
    ELSE IF DependenciesThrow(cfg, result.dependencies, T)
         THEN WrapperReturn("Error", Callback(0, "none", <<>>))
    ELSE WrapperReturn("none",
            Callback(1, "null", TargetedDependencies(cfg, result.dependencies, T)))

(***************************************************************************)
(* Inputs of the targeting engine                                          *)
(***************************************************************************)
ObjKeys(keys) == [t |-> "object", keys |-> keys]

App == Request(<<".", "app.js">>)
Css == Request(<<".", "style.css">>)
Lodash == Request(<<"lodash">>)
Vendor == Request(<<"vendor", "lib.js">>)
LazyRoute == Request(<<".", "routes", LazyMarker>>)

\* a tag key that names no configured target
OtherKey == "other"

EngineConfigs ==
    { [exclude     |-> <<>>,
       doNotTarget |-> Undefined,
       externals   |-> Arr(<< Str(FALSE, <<"lodash">>), RegExp("vendor") >>)],
      [exclude     |-> << Pattern("lib") >>,
       doNotTarget |-> Arr(<< Pattern("vendor") >>),
       externals   |-> ObjKeys(<< Str(FALSE, <<"lodash">>) >>)],
      [exclude     |-> <<>>,
       doNotTarget |-> Undefined,
       externals   |-> Arr(<< Str(FALSE, <<"lodash">>), Function >>)] }

TaggedApps == { Tagged(App, KeyOf(T)) : T \in Targets }

ModuleRequests ==
    {App, Css, Lodash, Vendor, Tagged(App, OtherKey), Tagged(Css, KeyOf(1))}
        \cup TaggedApps

DependencyRequests == ModuleRequests \cup {Undefined}

Issuer == "main.js"

\* a dependency of a resolve context
Dep(request, babelTarget, originTarget, groupName) ==
    [request |-> request, babelTarget |-> babelTarget,
     originTarget |-> originTarget, groupName |-> groupName]

PlainDeps == << Dep(App, NoTarget, NoTarget, <<"chunk">>),
                Dep(Tagged(App, KeyOf(1)), NoTarget, NoTarget, <<>>),
                Dep(Css, NoTarget, NoTarget, <<>>) >>

OriginDeps == << Dep(App, NoTarget, NoTarget, <<>>),
                 Dep(App, NoTarget, NumTargets, <<"chunk">>) >>

FullChain == << PlainLoader("css-loader", "c"), MarkerLoader("ts-loader", "t"),
                MarkerLoader(BabelLoaderPath, "b") >>

\* a second rule set: its babel marker entry has another ident
OtherChain == << MarkerLoader(BabelLoaderPath, "b2") >>

\* the resolved file keeps the query of the request
ResolveContext(request, main, contextInfo, rrdContext, deps, loaders) ==
    [request      |-> request,
     resource     |-> [t |-> "string", path |-> <<"pkg", "index.js">>,
                       tags |-> request.tags],
     resolve      |-> Undefined,
     issuer       |-> Issuer,
     contextInfo  |-> contextInfo,
     rrdContext   |-> rrdContext,
     dependencies |-> deps,
     loaders      |-> loaders,
     pkgRoot      |-> PkgRoot,
     pkg          |-> [main |-> main, browser |-> Undefined]]

NoMain == Undefined
IndexMain == Str(FALSE, <<"index.js">>)

ResolveContexts ==
    { ResolveContext(r, NoMain, c[1], c[2], PlainDeps, FullChain) :
        r \in {App, Css} \cup TaggedApps,
        c \in {<<NoTarget, NoTarget>>, <<1, NoTarget>>, <<NoTarget, NumTargets>>} }
    \cup { ResolveContext(Tagged(App, OtherKey), NoMain, 1, NoTarget, PlainDeps, FullChain),
           ResolveContext(App, IndexMain, NoTarget, NoTarget, PlainDeps, FullChain),
           ResolveContext(App, NoMain, NoTarget, NoTarget, OriginDeps, FullChain),
           ResolveContext(App, NoMain, NoTarget, NoTarget, <<>>,
                          <<PlainLoader("css-loader", "c")>>),
           ResolveContext(App, NoMain, 1, NoTarget, <<>>,
                          <<PlainLoader("css-loader", "c")>>),
           ResolveContext(App, NoMain, 1, NumTargets, OriginDeps, FullChain),
           ResolveContext(App, NoMain, 1, NoTarget, PlainDeps, OtherChain) }

LaterDeps == << Dep(Vendor, NoTarget, NoTarget, <<>>),
                Dep(App, NoTarget, NoTarget, <<>>) >>

\* the original resolveDependencies succeeds with dependencies, or reports an
\* error with or without dependencies
OriginalResults ==
    { OriginalResult("none", TRUE, PlainDeps),
      OriginalResult("none", TRUE, LaterDeps),
      OriginalResult("Error", FALSE, <<>>),
      OriginalResult("Error", TRUE, LaterDeps) }

LazyContext(mode, resource, deps) ==
    [mode |-> mode, resource |-> resource, context |-> "src", targetMap |-> {},
     wrapped |-> NoTarget, dependencies |-> deps]

LazyContexts ==
    { LazyContext(m, r, PlainDeps) :
        m \in {"lazy", "sync"}, r \in {LazyRoute, Tagged(LazyRoute, KeyOf(1)), App} }

(***************************************************************************)
(* The targeting engine as a state machine                                 *)
(***************************************************************************)
EmptyMap == [p \in {} |-> 0]

NoModule == NewModule(Undefined)

Idle == [op |-> "idle", in |-> Undefined, out |-> Undefined, err |-> "none",
         blind |-> FALSE, pair |-> <<>>, nth |-> 0, target |-> NoTarget]

Step(op, in, out, err, target) ==
    [op |-> op, in |-> in, out |-> out, err |-> err,
     blind |-> FALSE, pair |-> <<>>, nth |-> 0, target |-> target]

\* getBlindTarget calls counted per pair, up to the first one that must fail
Counted(pair) ==
    IF pair \in DOMAIN calls THEN calls[pair] ELSE 0

CountCall(pair) ==
    [p \in DOMAIN calls \cup {pair} |->
        IF p = pair
        THEN (IF Counted(pair) > NumTargets THEN Counted(pair) ELSE Counted(pair) + 1)
        ELSE calls[p]]

BlindStep(op, in, out, err, target, pair) ==
    [op |-> op, in |-> in, out |-> out, err |-> err,
     blind |-> TRUE, pair |-> pair, nth |-> CountCall(pair)[pair], target |-> target]

EngineInit ==
    /\ config \in EngineConfigs
    /\ remainingTargets = EmptyMap
    /\ calls = EmptyMap
    /\ cycle = [kind |-> "fresh", earlier |-> FALSE]
    /\ babelLoaders = EmptyMap
    /\ module = NoModule
    /\ last = Idle

\* the host takes the handler's result and goes on
Resume ==
    /\ last.op # "idle"
    /\ last' = Idle
    /\ module' = NoModule
    /\ UNCHANGED <<pol, orch, config, remainingTargets, calls, cycle, babelLoaders>>

\* compiler.run() on the same compiler: this plugin taps no hook of it
Run ==
    /\ last.op = "idle"
    /\ cycle' = [kind |-> "run", earlier |-> cycle.earlier \/ DOMAIN calls # {}]
    /\ calls' = EmptyMap
    /\ last' = Step("run", Undefined, Undefined, "none", NoTarget)
    /\ UNCHANGED <<pol, orch, config, remainingTargets, babelLoaders, module>>

\* the watchRun tap
WatchRun ==
    /\ last.op = "idle"
    /\ remainingTargets' = EmptyMap
    /\ cycle' = [kind |-> "watch", earlier |-> cycle.earlier \/ DOMAIN calls # {}]
    /\ calls' = EmptyMap
    /\ last' = Step("watchRun", Undefined, Undefined, "none", NoTarget)
    /\ UNCHANGED <<pol, orch, config, babelLoaders, module>>

\* normalModuleFactory "module" hook
TargetModule ==
    /\ last.op = "idle"
    /\ \E r \in ModuleRequests :
        \E o \in {targetModule(config, remainingTargets, Issuer, NewModule(r))} :
            /\ module' = o.module
            /\ remainingTargets' = o.ledger
            /\ calls' = IF o.blind THEN CountCall(<<Issuer, r>>) ELSE calls
            /\ last' = IF o.blind
                       THEN BlindStep("targetModule", NewModule(r), o.module, o.err,
                                      o.module.babelTarget, <<Issuer, r>>)
                       ELSE Step("targetModule", NewModule(r), o.module, o.err,
                                 o.module.babelTarget)
    /\ UNCHANGED <<pol, orch, config, cycle, babelLoaders>>

\* module.addDependency(dep) while the module of the last "module" hook is built
AddDependency ==
    /\ last.op \in {"targetModule", "addDependency"}
    /\ last.err = "none"
    /\ module # NoModule
    /\ \E r \in DependencyRequests :
        \E o \in {addDependency(config, module, r)} :
            last' = Step("addDependency", r, o.request, o.err, module.babelTarget)
    /\ UNCHANGED <<pol, orch, config, remainingTargets, calls, cycle, babelLoaders, module>>

\* normalModuleFactory "afterResolve" hook
AfterResolve ==
    /\ last.op = "idle"
    /\ \E ctx \in ResolveContexts :
        \E o \in {afterResolve(config, remainingTargets, babelLoaders, ctx)},
           pair \in {<<ctx.issuer, ctx.request>>} :
            /\ remainingTargets' = o.ledger
            /\ babelLoaders' = o.cache
            /\ calls' = IF o.blind THEN CountCall(pair) ELSE calls
            /\ last' = IF o.blind
                       THEN BlindStep("afterResolve", ctx, o.ctx, o.err, o.target, pair)
                       ELSE Step("afterResolve", ctx, o.ctx, o.err, o.target)
    /\ UNCHANGED <<pol, orch, config, cycle, module>>

\* contextModuleFactory "afterResolve" hook
TargetLazyModules ==
    /\ last.op = "idle"
    /\ \E lctx \in LazyContexts :
        \E o \in {targetLazyModules(config, remainingTargets, lctx)},
           pair \in {<<lctx.context, lctx.resource>>} :
            /\ remainingTargets' = o.ledger
            /\ calls' = IF o.blind THEN CountCall(pair) ELSE calls
            /\ last' = IF o.blind
                       THEN BlindStep("targetLazyModules", lctx, o.ctx, o.err, o.target, pair)
                       ELSE Step("targetLazyModules", lctx, o.ctx, o.err, o.target)
    /\ UNCHANGED <<pol, orch, config, cycle, babelLoaders, module>>

\* the context module factory calls the resolveDependencies of the context
\* that targetLazyModules has returned
ResolveDependencies ==
    /\ last.op = "targetLazyModules"
    /\ last.err = "none"
    /\ last.out.wrapped # NoTarget
    /\ \E result \in OriginalResults :
        \E o \in {resolveDependencies(config, last.out.wrapped, result)} :
            last' = Step("resolveDependencies", result, o.cb, o.thrown, last.out.wrapped)
    /\ UNCHANGED <<pol, orch, config, remainingTargets, calls, cycle, babelLoaders, module>>

(***************************************************************************)
(* BabelTargetSingleEntryDependency                                        *)
(* Strings are sequences of pieces; "+" is \o.  An absent or empty loc is  *)
(* <<>> (both are falsy).                                                  *)
(***************************************************************************)
DEV_SERVER_CLIENT == "webpack-dev-server/client"

\* request.startsWith(DEV_SERVER_CLIENT)
IsDevServerClient(request) ==
    request.path # <<>> /\ request.path[1] = DEV_SERVER_CLIENT

\* the string of a request: its path followed by its tags
RequestText(request) ==
    request.path \o [i \in 1..(2 * Len(request.tags)) |->
                        IF i % 2 = 1 THEN "?babel-target="
                        ELSE request.tags[i \div 2]]

\* new BabelTargetSingleEntryDependency(babelTarget, request, originalName, loc)
BabelTargetSingleEntryDependency(T, request, originalName, loc) ==
    LET req == IF IsDevServerClient(request) THEN request
               ELSE getTargetedRequest(T, request)
    IN  [babelTarget  |-> T,
         request      |-> req,
         originalName |-> originalName,
         name         |-> getTargetedAssetName(T, originalName),
         loc          |-> IF loc = <<>> THEN RequestText(req) \o <<":", KeyOf(T)>>
                          ELSE loc \o <<":", KeyOf(T)>>]

\* mutant: the identifier is made of the request alone
getResourceIdentifier_request(dep) ==
    <<"module">> \o RequestText(dep.request)

\* dep.getResourceIdentifier(): `module${this.request}!${this.babelTarget.key}`
getResourceIdentifier(dep) ==
    <<"module">> \o RequestText(dep.request) \o <<"!", KeyOf(dep.babelTarget)>>

DevServerClient == Request(<<DEV_SERVER_CLIENT, "index.js">>)

EntryRequests ==
    {App, Css, DevServerClient, Tagged(App, OtherKey)} \cup TaggedApps

EntryNames == { <<"main">>, <<"main", "legacy">> }

EntryLocs == { <<>>, <<"main">>, <<"main", ":", "legacy">> }

\* one entry dependency per configured target for the same request and name
NewEntryDependencies ==
    /\ last.op = "idle"
    /\ \E request \in EntryRequests, originalName \in EntryNames,
          loc \in [Targets -> EntryLocs] :
            last' = Step("entryDependencies",
                         [request |-> request, originalName |-> originalName,
                          loc |-> loc],
                         [T \in Targets |->
                            BabelTargetSingleEntryDependency(T, request,
                                                             originalName, loc[T])],
                         "none", NoTarget)
    /\ UNCHANGED <<pol, orch, config, remainingTargets, calls, cycle, babelLoaders, module>>

(***************************************************************************)
(* WebpackBabelMultiTargetPlugin (webpack.babel.multi.target.plugin.js)    *)
(* An absent or empty string is "" (both are falsy).                       *)
(***************************************************************************)
CHILD_COMPILER_PREFIX == "webpack-babel-multi-target-compiler-"

BABEL_LOADER == "babel-loader"

FILTERED_PLUGINS == {"HardSourceWebpackPlugin", "HtmlWebpackPlugin"}

\* options.plugins: "" (absent), "object" (given, not callable), or a factory:
\* "fresh" makes new plugin instances, "shared" hands out an instance that the
\* parent configuration holds as well
IsFactory(plugins) == plugins \in {"fresh", "shared"}

\* the checks made on one options object, in order
OptionError(option) ==
    IF option.browserProfile = "" THEN "browserProfile is required"
    ELSE IF option.plugins # "" /\ ~IsFactory(option.plugins)
         THEN "plugins must be a function"
    ELSE "none"

\* constructor(...multiTargetOptions): the error thrown, or "none"
ConstructorError(raw) ==
    IF Len(raw) = 0 THEN "no options"
    ELSE IF \E i \in DOMAIN raw : OptionError(raw[i]) # "none"
         THEN OptionError(raw[CHOOSE i \in DOMAIN raw :
                                /\ OptionError(raw[i]) # "none"
                                /\ \A j \in 1..(i - 1) : OptionError(raw[j]) = "none"])
    ELSE "none"

\* the options the constructor keeps: an omitted key is the browserProfile
Construct(raw) ==
    [i \in DOMAIN raw |->
        IF raw[i].key = "" THEN [raw[i] EXCEPT !.key = raw[i].browserProfile] ELSE raw[i]]

\* childCompiler.name = `${CHILD_COMPILER_PREFIX}${multiTargetOption.key}`
ChildName(option) == <<CHILD_COMPILER_PREFIX, option.key>>

StartsWithPrefix(name) == name # <<>> /\ name[1] = CHILD_COMPILER_PREFIX

\* compilationBrowserProfiles after apply: a later option overwrites an earlier
\* one of the same name
RECURSIVE BrowserProfiles(_, _, _)
BrowserProfiles(options, i, map) ==
    IF i > Len(options) THEN map
    ELSE BrowserProfiles(options, i + 1,
            [n \in DOMAIN map \cup {ChildName(options[i])} |->
                IF n = ChildName(options[i]) THEN options[i].browserProfile ELSE map[n]])

\* plugin instances: an instance is its identity and the name of its constructor
Plugin(id, ctor) == [id |-> id, ctor |-> ctor]
PluginSelf == Plugin("self", "WebpackBabelMultiTargetPlugin")
HtmlPlugin == Plugin("html#1", "HtmlWebpackPlugin")
DefinePlugin == Plugin("define#1", "DefinePlugin")

\* multiTargetOption.plugins ? multiTargetOption.plugins() : config.plugins
OptionPlugins(option, base) ==
    CASE option.plugins = "fresh"  -> << Plugin("define#2", "DefinePlugin") >>
      [] option.plugins = "shared" -> << DefinePlugin >>
      [] OTHER                     -> base.plugins

\* config.plugins: without this plugin, other instances of it and the
\* FILTERED_PLUGINS
ChildPlugins(option, base) ==
    SelectSeq(OptionPlugins(option, base),
              LAMBDA plugin : /\ plugin # PluginSelf
                              /\ plugin.ctor # PluginSelf.ctor
                              /\ plugin.ctor \notin FILTERED_PLUGINS)

\* an instance of the parent's plugin list is in the child's list as well
PluginDuplication(option, base) ==
    \E i \in DOMAIN base.plugins :
        \E j \in DOMAIN ChildPlugins(option, base) :
            ChildPlugins(option, base)[j] = base.plugins[i]

\* a rule of config.module.rules: its loader ("" if it has none) and its use:
\* nothing, a loader name, or a list of rules
NoUse == [t |-> "undefined"]
UseName(name) == [t |-> "string", name |-> name]
UseList(rules) == [t |-> "array", rules |-> rules]
Rule(loader, use) == [loader |-> loader, use |-> use]

\* findBabelRules(rules): the number of rules found from index i on.  The
\* characters of a use that names another loader are no rules.
RECURSIVE findBabelRules(_, _)
findBabelRules(rules, i) ==
    IF i > Len(rules) THEN 0
    ELSE IF rules[i].loader = BABEL_LOADER \/ rules[i].use = UseName(BABEL_LOADER)
         THEN 1 + findBabelRules(rules, i + 1)
    ELSE IF rules[i].use.t = "array"
         THEN findBabelRules(rules[i].use.rules, 1) + findBabelRules(rules, i + 1)
    ELSE findBabelRules(rules, i + 1)

\* mutant: the child configuration is not checked
ChildCompilerError_none(option, base) == "none"

\* the error thrown while the child compiler of one options object is made
ChildCompilerError(option, base) ==
    IF PluginDuplication(option, base) THEN "plugin instance duplication"
    ELSE IF findBabelRules(base.rules, 1) = 0 THEN "no babel-loader rules"
    ELSE "none"

\* apply(compiler): the error thrown by the first options object that has one
ApplyError(options, base) ==
    IF \E i \in DOMAIN options : ChildCompilerError(options[i], base) # "none"
    THEN ChildCompilerError(options[CHOOSE i \in DOMAIN options :
            /\ ChildCompilerError(options[i], base) # "none"
            /\ \A j \in 1..(i - 1) : ChildCompilerError(options[j], base) = "none"], base)
    ELSE "none"

\* a script tag as html-webpack-plugin makes it; the handler reads src and
\* writes type and nomodule
ScriptTag(src) ==
    [tagName |-> "script", src |-> src, type |-> "text/javascript", nomodule |-> FALSE]
LinkTag ==
    [tagName |-> "link", src |-> <<>>, type |-> "text/css", nomodule |-> FALSE]

\* children.find(child => child.assets[tag.attributes.src]): its index, or 0
RECURSIVE FindChild(_, _, _)
FindChild(children, i, src) ==
    IF i > Len(children) THEN 0
    ELSE IF StartsWithPrefix(children[i].name) /\ src \in children[i].assets THEN i
    ELSE FindChild(children, i + 1, src)

AlterTag(tag, children, profiles, options) ==
    LET c == FindChild(children, 1, tag.src)
        isModernBundle ==
            IF c # 0
            THEN children[c].name \in DOMAIN profiles /\ profiles[children[c].name] = "modern"
            ELSE \E i \in DOMAIN options : options[i].browserProfile = "legacy"
    IN  IF tag.tagName # "script" THEN tag
        ELSE IF isModernBundle THEN [tag EXCEPT !.type = "module"]
        ELSE [tag EXCEPT !.nomodule = TRUE]

\* child.name.startsWith(...) throws on a child compilation without a name
AlterAssetTagsThrows(children) ==
    \E i \in DOMAIN children : children[i].name = <<>>

alterAssetTags(tags, children, profiles, options) ==
    IF AlterAssetTagsThrows(children) THEN tags
    ELSE [i \in DOMAIN tags |-> AlterTag(tags[i], children, profiles, options)]

(***************************************************************************)
(* Child compilations: chunks, the before-chunk-ids handler, emitted files *)
(***************************************************************************)
\* a chunk: its id, its name (<<>> if it has none; rawName is the name it was
\* created with), the extensions of its files and, once emitted, its files
Chunk(id, name, exts) ==
    [id |-> id, rawName |-> name, name |-> name, exts |-> exts, files |-> <<>>]

\* the before-chunk-ids handler of the child compiler of a key:
\* chunk.name += `.${key}` for every chunk that has a name
BeforeChunkIds(chunks, key) ==
    [i \in DOMAIN chunks |->
        IF chunks[i].name # <<>> THEN [chunks[i] EXCEPT !.name = Append(@, key)]
        ELSE chunks[i]]

IdText(id) == <<"0", "1", "2">>[id + 1]

\* output.filename "[name].[ext]", "[id].[ext]" for a chunk without a name
ChunkFiles(chunk) ==
    [i \in DOMAIN chunk.exts |->
        (IF chunk.name = <<>> THEN <<IdText(chunk.id)>> ELSE chunk.name)
            \o <<chunk.exts[i]>>]

Emit(chunks) ==
    [i \in DOMAIN chunks |-> [chunks[i] EXCEPT !.files = ChunkFiles(chunks[i])]]

AssetsOf(chunks) == UNION { Range(chunks[i].files) : i \in DOMAIN chunks }

\* the compilation of the child compiler made for options[idx]
SealedChild(option, idx, chunks) ==
    [name    |-> ChildName(option),
     option  |-> idx,
     profile |-> option.browserProfile,
     chunks  |-> chunks,
     assets  |-> AssetsOf(chunks)]

ChildCompilation(option, idx, rawChunks) ==
    SealedChild(option, idx, Emit(BeforeChunkIds(rawChunks, option.key)))

(***************************************************************************)
(* The html-webpack-plugin-before-html-generation handler                  *)
(***************************************************************************)
\* file.endsWith('.js')
EndsWithJs(file) == file[Len(file)] = "js"

HasJsFile(chunk) == \E i \in DOMAIN chunk.files : EndsWithJs(chunk.files[i])

\* child.chunks.filter(chunk => chunk.files.find(file => file.endsWith('.js')))
JsChunks(child) == SelectSeq(child.chunks, HasJsFile)

\* htmlPluginData.plugin.sortChunks(chunks, chunksSortMode): by id
IdBefore(a, b) == a.id < b.id
sortChunks(chunks) == SortSeq(chunks, IdBefore)

\* chunk.files.find(file => file.endsWith('.js'))
FirstJs(chunk) ==
    chunk.files[CHOOSE i \in DOMAIN chunk.files :
                    /\ EndsWithJs(chunk.files[i])
                    /\ \A j \in 1..(i - 1) : ~EndsWithJs(chunk.files[j])]

\* the property name a chunk name makes
ChunkKey(chunk) == IF chunk.name = <<>> THEN <<"undefined">> ELSE chunk.name

HtmlChunk(chunk) == [entry |-> FirstJs(chunk), css |-> <<>>]

\* _.fromPairs and Object.assign: the last chunk of a name wins
AssignChunks(chunks, sorted) ==
    [n \in DOMAIN chunks \cup { ChunkKey(sorted[i]) : i \in DOMAIN sorted } |->
        IF \E i \in DOMAIN sorted : ChunkKey(sorted[i]) = n
        THEN HtmlChunk(sorted[CHOOSE i \in DOMAIN sorted :
                                /\ ChunkKey(sorted[i]) = n
                                /\ \A j \in DOMAIN sorted : ChunkKey(sorted[j]) = n => j <= i])
        ELSE chunks[n]]

\* the assets after the chunks of one child, sorted, are merged in
MergeSorted(assets, sorted) ==
    [js     |-> assets.js \o [i \in DOMAIN sorted |-> FirstJs(sorted[i])],
     chunks |-> AssignChunks(assets.chunks, sorted)]

RECURSIVE beforeHtmlGeneration(_, _, _)
beforeHtmlGeneration(assets, children, i) ==
    IF i > Len(children) THEN assets
    ELSE IF StartsWithPrefix(children[i].name)
         THEN beforeHtmlGeneration(MergeSorted(assets, sortChunks(JsChunks(children[i]))),
                                   children, i + 1)
    ELSE beforeHtmlGeneration(assets, children, i + 1)

(***************************************************************************)
(* Inputs of the orchestrator                                              *)
(***************************************************************************)
Option(browserProfile, key, plugins) ==
    [browserProfile |-> browserProfile, key |-> key, plugins |-> plugins]

RawOptions ==
    { Option("modern", "", ""), Option("legacy", "", ""),
      Option("modern", "a", ""), Option("legacy", "a", "fresh"),
      Option("", "a", ""), Option("modern", "", "object"),
      Option("legacy", "", "shared") }

RawOptionLists == UNION { [1..n -> RawOptions] : n \in 0..MaxOptions }

\* compiler.options: the parent's plugins and module rules
BaseConfigs ==
    { [plugins |-> <<PluginSelf, HtmlPlugin>>,
       rules   |-> << Rule(BABEL_LOADER, NoUse) >>],
      [plugins |-> <<PluginSelf, HtmlPlugin>>,
       rules   |-> << Rule("", UseList(<< Rule("ts-loader", NoUse),
                                          Rule(BABEL_LOADER, NoUse) >>)) >>],
      [plugins |-> <<PluginSelf, HtmlPlugin>>,
       rules   |-> << Rule("", UseName("ts-loader")) >>],
      [plugins |-> <<PluginSelf, HtmlPlugin, DefinePlugin>>,
       rules   |-> << Rule("", UseName(BABEL_LOADER)) >>] }

\* the chunks of a child compilation as they are created
ChildChunkLists ==
    { << Chunk(1, <<"main">>, <<"css", "js">>) >>,
      << Chunk(2, <<"styles">>, <<"css">>), Chunk(1, <<"main">>, <<"js">>),
         Chunk(0, <<>>, <<"js">>) >> }

\* the files a child compilation emits: its entry chunk, named with the key,
\* and possibly a chunk without a name
EntryAsset(key) == <<"main", key, "js">>
UnnamedAsset == <<"0", "js">>
ParentAsset == <<"parent", "js">>

\* compilations of other plugins' child compilers, with or without a name
ForeignChunks == Emit(<< Chunk(0, <<"foreign">>, <<"js">>) >>)

ForeignChildren ==
    { <<>>,
      << [name |-> <<"html-webpack-plugin">>, option |-> 0, profile |-> "",
          chunks |-> ForeignChunks, assets |-> AssetsOf(ForeignChunks)] >>,
      << [name |-> <<>>, option |-> 0, profile |-> "",
          chunks |-> <<>>, assets |-> {}] >> }

\* htmlPluginData.assets as html-webpack-plugin hands it over: the parent's
\* script files and its chunks by name
HtmlAssets ==
    { [js     |-> << ParentAsset >>,
       chunks |-> (<<"parent">> :> [entry |-> ParentAsset, css |-> <<>>])],
      [js     |-> << ParentAsset, <<"main", "a", "bundle", "js">> >>,
       chunks |-> (<<"parent">> :> [entry |-> ParentAsset, css |-> <<>>])
                  @@ (<<"main", "a">> :> [entry |-> <<"main", "a", "bundle", "js">>,
                                          css   |-> << <<"main", "a", "css">> >>])] }

TagSources(options) ==
    { EntryAsset(options[i].key) : i \in DOMAIN options } \cup {UnnamedAsset, ParentAsset}

TagLists(options) ==
    LET tags == { ScriptTag(src) : src \in TagSources(options) } \cup {LinkTag}
    IN  UNION { [1..n -> tags] : n \in 1..MaxTags }

(***************************************************************************)
(* The orchestrator as a state machine                                     *)
(***************************************************************************)
NoAssets == [js |-> <<>>, chunks |-> EmptyMap]

OrchIdle ==
    [phase |-> "idle", err |-> "none", raw |-> <<>>, options |-> <<>>,
     base |-> [plugins |-> <<>>, rules |-> <<>>], profiles |-> EmptyMap,
     running |-> {}, started |-> {}, failed |-> {}, children |-> <<>>,
     callback |-> "none", callbacks |-> 0, pending |-> {},
     assetsIn |-> NoAssets, assets |-> NoAssets,
     tagsIn |-> <<>>, tags |-> <<>>]

OrchInit ==
    \E raw \in RawOptionLists :
        orch = IF ConstructorError(raw) # "none"
               THEN [OrchIdle EXCEPT !.phase = "failed", !.err = ConstructorError(raw),
                                     !.raw = raw]
               ELSE [OrchIdle EXCEPT !.phase = "constructed", !.raw = raw,
                                     !.options = Construct(raw)]

EngineIdle ==
    /\ config = [exclude |-> <<>>, doNotTarget |-> Undefined, externals |-> Undefined]
    /\ remainingTargets = EmptyMap
    /\ calls = EmptyMap
    /\ cycle = [kind |-> "fresh", earlier |-> FALSE]
    /\ babelLoaders = EmptyMap
    /\ module = NoModule
    /\ last = Idle

EngineUnchanged ==
    UNCHANGED <<pol, config, remainingTargets, calls, cycle, babelLoaders, module, last>>

\* apply(compiler): one child compiler per options object, or the error thrown
Apply ==
    /\ orch.phase = "constructed"
    /\ \E base \in BaseConfigs :
        orch' = IF ApplyError(orch.options, base) # "none"
                THEN [orch EXCEPT !.phase = "failed", !.base = base,
                                  !.err = ApplyError(orch.options, base)]
                ELSE [orch EXCEPT !.phase = "applied", !.base = base,
                                  !.profiles = BrowserProfiles(orch.options, 1, EmptyMap)]
    /\ EngineUnchanged

\* the "make" tap: every child compiler is run as a child; other plugins'
\* child compilations may be there already
Make ==
    /\ orch.phase = "applied"
    /\ \E foreign \in ForeignChildren :
        orch' = [orch EXCEPT !.phase = "make", !.running = DOMAIN orch.options,
                             !.started = DOMAIN orch.options,
                             !.children = foreign]
    /\ EngineUnchanged

\* the promise of the make tap is settled and its reaction has not run yet
CallbackDue ==
    /\ orch.phase = "make"
    /\ orch.callback = "none"
    /\ (orch.failed # {} \/ orch.running = {})

\* runAsChild of child compiler i ends: its compilation joins the children
ChildDone(i) ==
    /\ orch.phase \in {"make", "aborted"}
    /\ ~CallbackDue
    /\ i \in orch.running
    /\ \E chunks \in ChildChunkLists :
        orch' = [orch EXCEPT !.running = @ \ {i},
                             !.children = Append(@, ChildCompilation(orch.options[i], i,
                                                                     chunks))]
    /\ EngineUnchanged

\* runAsChild of child compiler i ends with an error: its promise is rejected
ChildFail(i) ==
    /\ orch.phase \in {"make", "aborted"}
    /\ ~CallbackDue
    /\ i \in orch.running
    /\ orch' = [orch EXCEPT !.running = @ \ {i}, !.failed = @ \cup {i}]
    /\ EngineUnchanged

\* Promise.all(...).then(() => callback(), err => callback(err)): the promise
\* is fulfilled when every child has ended, rejected when the first one fails
MakeCallback ==
    /\ CallbackDue
    /\ orch' = [orch EXCEPT !.phase     = IF orch.failed # {} THEN "aborted" ELSE "sealed",
                            !.callback  = IF orch.failed # {} THEN "err" ELSE "ok",
                            !.callbacks = @ + 1,
                            !.pending   = orch.running]
    /\ EngineUnchanged

\* the html-webpack-plugin-before-html-generation tap
BeforeHtmlGeneration ==
    /\ orch.phase = "sealed"
    /\ \E assets \in HtmlAssets :
        orch' = [orch EXCEPT
                    !.phase    = "merged",
                    !.assetsIn = assets,
                    !.assets   = beforeHtmlGeneration(assets, orch.children, 1)]
    /\ EngineUnchanged

\* the html-webpack-plugin-alter-asset-tags tap
AlterAssetTags ==
    /\ orch.phase = "merged"
    /\ \E tags \in TagLists(orch.options) :
        orch' = [orch EXCEPT
                    !.phase  = "tagged",
                    !.tagsIn = tags,
                    !.tags   = alterAssetTags(tags, orch.children, orch.profiles, orch.options),
                    !.err    = IF AlterAssetTagsThrows(orch.children)
                               THEN "TypeError" ELSE "none"]
    /\ EngineUnchanged

(***************************************************************************)
(* Specifications                                                          *)
(***************************************************************************)
vars == <<pol, orch, config, remainingTargets, calls, cycle, babelLoaders, module, last>>

PolicyIdle == [ctx |-> Undefined, exclude |-> <<>>, result |-> "idle"]

PolicyInit ==
    /\ pol \in [ ctx : PolicyContexts, exclude : ExcludeLists, result : {"pending"} ]
    /\ orch = OrchIdle
    /\ config = [exclude |-> pol.exclude, doNotTarget |-> Undefined,
                 externals |-> Undefined]
    /\ remainingTargets = EmptyMap
    /\ calls = EmptyMap
    /\ cycle = [kind |-> "fresh", earlier |-> FALSE]
    /\ babelLoaders = EmptyMap
    /\ module = NoModule
    /\ last = Idle

\* one call of isTranspiledRequest
PolicyCall ==
    /\ pol.result = "pending"
    /\ pol' = [pol EXCEPT !.result = isTranspiledRequest(pol.ctx, config.exclude)]
    /\ UNCHANGED <<orch, config, remainingTargets, calls, cycle, babelLoaders, module, last>>

PolicyNext == PolicyCall

SpecPolicy == PolicyInit /\ [][PolicyNext]_vars

Init == EngineInit /\ pol = PolicyIdle /\ orch = OrchIdle

Next ==
    \/ Run
    \/ WatchRun
    \/ TargetModule
    \/ AddDependency
    \/ AfterResolve
    \/ TargetLazyModules
    \/ ResolveDependencies
    \/ Resume

Spec == Init /\ [][Next]_vars

EntryNext ==
    \/ NewEntryDependencies
    \/ Resume

SpecEntry == Init /\ [][EntryNext]_vars

HtmlInit == OrchInit /\ EngineIdle /\ pol = PolicyIdle

HtmlNext ==
    \/ Apply
    \/ Make
    \/ \E i \in 1..MaxOptions : ChildDone(i)
    \/ \E i \in 1..MaxOptions : ChildFail(i)
    \/ MakeCallback
    \/ BeforeHtmlGeneration
    \/ AlterAssetTags

SpecHtml == HtmlInit /\ [][HtmlNext]_vars

\* construction, apply and the make stage, without the html-webpack-plugin hooks
MakeNext ==
    \/ Apply
    \/ Make
    \/ \E i \in 1..MaxOptions : ChildDone(i)
    \/ \E i \in 1..MaxOptions : ChildFail(i)
    \/ MakeCallback

SpecMake == HtmlInit /\ [][MakeNext]_vars

(***************************************************************************)
(* Exclusion policy: C7, C8, C9                                            *)
(***************************************************************************)
PolicyDone == pol.result \in {"true", "false", "TypeError"}

\* the resource is exactly path.resolve(pkgRoot, pkg.main) of a declared main
IsDeclaredMain(ctx) ==
    /\ ctx.pkg.main.t = "string"
    /\ Truthy(ctx.pkg.main)
    /\ ctx.resource.tags = <<>>
    /\ ctx.resource.path = PathResolve(ctx.pkgRoot, ctx.pkg.main)

C8_CallerPatternExcludes ==
    (PolicyDone /\ AnyPatternTest(pol.exclude, pol.ctx.resource))
        => pol.result = "false"

\* the files a browser field value names: the string, the strings of an array,
\* the string values of a mapping
BrowserNames(ctx) ==
    LET b == ctx.pkg.browser
        strings == IF b.t = "string" THEN {b}
                   ELSE IF b.t = "array" THEN { v \in Range(b.items) : v.t = "string" }
                   ELSE IF b.t = "object" THEN { v \in Range(b.vals) : v.t = "string" }
                   ELSE {}
    IN  { PathResolve(ctx.pkgRoot, v) : v \in strings }

NothingElseExcludes(ctx, exclude) ==
    /\ ~AnyPatternTest(STANDARD_EXCLUDED, ctx.resource)
    /\ ~AnyPatternTest(KNOWN_EXCLUDED, ctx.resource)
    /\ ~AnyPatternTest(exclude, ctx.resolve)
    /\ ~IsDeclaredMain(ctx)

\* C9: whatever the browser field holds, the exclusion policy returns a boolean,
\* and a field value that names no file equal to the resolved file is no match.
C9_BrowserFieldNeverThrows ==
    PolicyDone =>
        /\ pol.result \in {"true", "false"}
        /\ (NothingElseExcludes(pol.ctx, pol.exclude)
              /\ ~(pol.ctx.resource.tags = <<>>
                   /\ pol.ctx.resource.path \in BrowserNames(pol.ctx)))
             => pol.result = "true"

(***************************************************************************)
(* Blind assignment and build cycles: C1, C5                               *)
(***************************************************************************)
\* C1: within one build cycle the k-th blind assignment of a pair returns the
\* k-th configured target for k = 1..N, and the (N+1)-th call fails.
C1_KthCallKthTarget ==
    last.blind =>
        IF last.nth <= NumTargets
        THEN last.target = AllTargets[last.nth] /\ last.err # "BlindTargetingError"
        ELSE last.target = NoTarget /\ last.err = "BlindTargetingError"

\* C5: the first blind assignment of a pair in a build cycle, fresh build or
\* watch rebuild, returns the first configured target.
C5_CycleStartsWithFullLedger ==
    (last.blind /\ last.nth = 1) => last.target = AllTargets[1]

(***************************************************************************)
(* Module discovery and dependency propagation: C2, C3, C4, C6             *)
(***************************************************************************)
Eligible(request) ==
    HasRequest(request) /\ isTargetedRequest(config, request) = "true"

TaggedFor(request, T) ==
    HasRequest(request) /\ request.tags = <<KeyOf(T)>>

AddedToTargeted ==
    last.op = "addDependency" /\ module.babelTarget # NoTarget

\* C2, read literally: every dependency added to a targeted module is registered
\* with its request tagged with the module's target.
C2_EveryDependencyTagged ==
    AddedToTargeted => (last.err = "none" /\ TaggedFor(last.out, module.babelTarget))

\* C2, as the code supports it: a dependency whose request is present, eligible and untagged is
\* registered tagged with the module's target; any other dependency is
\* registered with its request unchanged.
C2_EligibleDependencyTagged ==
    AddedToTargeted =>
        /\ last.err = "none"
        /\ IF Eligible(last.in) /\ ~isTaggedRequest(last.in)
           THEN last.out = Tagged(last.in, KeyOf(module.babelTarget))
           ELSE last.out = last.in

C2_Witness ==
    /\ AddedToTargeted
    /\ last.in = App
    /\ last.out = Tagged(App, KeyOf(module.babelTarget))

\* the uses of getTargetedRequest by the last step: <<target, request, tagged form>>
Taggings ==
    CASE last.op = "targetModule" /\ last.out.babelTarget # NoTarget ->
            { <<last.out.babelTarget, last.in.request, last.out.request>> }
      [] last.op = "addDependency" /\ module.babelTarget # NoTarget
            /\ last.err = "none" /\ Eligible(last.in) ->
            { <<module.babelTarget, last.in, last.out>> }
      [] last.op = "afterResolve" /\ last.target # NoTarget
            /\ getTargetFromTag(last.in.request) = NoTarget ->
            { <<last.target, last.in.request, last.out.request>>,
              <<last.target, last.in.resource, last.out.resource>> }
      [] last.op = "targetLazyModules" /\ last.target # NoTarget ->
            { <<last.target, last.in.resource, last.out.resource>> }
      [] OTHER -> {}

Rewrites ==
    CASE last.op = "targetModule" -> { <<last.in.request, last.out.request>> }
      [] last.op = "addDependency" -> { <<last.in, last.out>> }
      [] last.op = "afterResolve" ->
            { <<last.in.request, last.out.request>>,
              <<last.in.resource, last.out.resource>> }
            \cup { <<last.in.dependencies[i].request, last.out.dependencies[i].request>> :
                     i \in DOMAIN last.in.dependencies }
      [] last.op = "targetLazyModules" ->
            { <<last.in.resource, last.out.resource>> }
            \cup { <<last.in.dependencies[i].request, last.out.dependencies[i].request>> :
                     i \in DOMAIN last.in.dependencies }
      [] OTHER -> {}

\* C4: no step of targetModule, targetDependency, targetLazyModules or
\* checkResolveTarget changes a request or resource that already carries a tag.
C4_TaggedStringsUnchanged ==
    \A w \in Rewrites :
        (HasRequest(w[1]) /\ isTaggedRequest(w[1])) => w[2] = w[1]

\* a request tagged with an unregistered key goes through the tagging of
\* checkResolveTarget and stays as it was
C4_Witness ==
    /\ last.op = "afterResolve"
    /\ last.target # NoTarget
    /\ last.in.request = Tagged(App, OtherKey)
    /\ last.out.request = last.in.request
    /\ \E i \in DOMAIN last.in.dependencies :
          /\ isTaggedRequest(last.in.dependencies[i].request)
          /\ last.out.dependencies[i].request = last.in.dependencies[i].request

\* C6, read literally: an eligible, untagged request gets its target by blind
\* assignment at module discovery and leaves it tagged, targeted and intercepted.
C6_UntaggedModuleBlindTargeted ==
    (last.op = "targetModule" /\ Eligible(last.in.request)
        /\ ~isTaggedRequest(last.in.request))
    => /\ last.blind
       /\ last.out.babelTarget # NoTarget
       /\ last.out.request = Tagged(last.in.request, KeyOf(last.out.babelTarget))
       /\ last.out.hooks # <<>>

\* C6, as the code supports it: module discovery takes the target from the tag of the request
\* only. An eligible request tagged for a configured target keeps its request,
\* records that target and gets the addDependency interception; any other
\* request leaves the module untouched, and no blind assignment is made.
C6_ModuleTargetedFromTagOnly ==
    (last.op = "targetModule" /\ last.err = "none") =>
        /\ ~last.blind
        /\ IF Eligible(last.in.request) /\ getTargetFromTag(last.in.request) # NoTarget
           THEN last.out = [request     |-> last.in.request,
                            babelTarget |-> getTargetFromTag(last.in.request),
                            hooks       |-> <<getTargetFromTag(last.in.request)>>]
           ELSE last.out = last.in

C6_Witness ==
    /\ last.op = "targetModule"
    /\ last.err = "none"
    /\ last.in.request = App
    /\ Eligible(App)
    /\ last.out = NewModule(App)
    /\ remainingTargets = EmptyMap

(***************************************************************************)
(* Script tags: C10                                                        *)
(***************************************************************************)
\* the child compilations of this plugin that emitted the asset
ChildrenWith(src) ==
    { i \in DOMAIN orch.children :
        StartsWithPrefix(orch.children[i].name) /\ src \in orch.children[i].assets }

\* C10: after the script-tag hook every script tag carries exactly one loading
\* hint: type=module for an asset of a child of a modern target, nomodule for an
\* asset of a child of any other target, and for an asset of no child
\* type=module iff some target is legacy; other tags are unchanged.
C10_ScriptTagHints ==
    orch.phase = "tagged" =>
        /\ orch.err = "none"
        /\ \A i \in DOMAIN orch.tagsIn :
            LET before == orch.tagsIn[i]
                after  == orch.tags[i]
                kids   == ChildrenWith(before.src)
            IN  IF before.tagName # "script" THEN after = before
                ELSE /\ after.src = before.src
                     /\ (after.type = "module") # after.nomodule
                     /\ (\E c \in kids : orch.children[c].profile = "modern")
                            => after.type = "module"
                     /\ (\E c \in kids : orch.children[c].profile # "modern")
                            => after.nomodule
                     /\ kids = {} =>
                            (after.type = "module" <=>
                                \E j \in DOMAIN orch.options :
                                    orch.options[j].browserProfile = "legacy")

(***************************************************************************)
(* Child compilations: C11, C12, C14, C15                                  *)
(***************************************************************************)
\* the compilations in compilation.children made by this plugin's child compilers
TargetChildren == { i \in DOMAIN orch.children : orch.children[i].option # 0 }

NamedChunkNames(child) ==
    { child.chunks[j].name : j \in { k \in DOMAIN child.chunks : child.chunks[k].name # <<>> } }

\* every named chunk of a child is its created name followed by the key, once
ChunksSuffixedOnce ==
    \A i \in TargetChildren :
        \A j \in DOMAIN orch.children[i].chunks :
            LET chunk == orch.children[i].chunks[j]
                key   == orch.options[orch.children[i].option].key
            IN  chunk.name = IF chunk.rawName = <<>> THEN <<>>
                             ELSE Append(chunk.rawName, key)

\* C11: in the child compilation of key K every named chunk is renamed to
\* <name>.K, once, unnamed chunks stay unnamed, and named chunks of the child
\* compilations of different configured targets never have equal names.
C11_ChunkNamesNeverCollide ==
    /\ ChunksSuffixedOnce
    /\ \A i, j \in TargetChildren :
          orch.children[i].option # orch.children[j].option
            => NamedChunkNames(orch.children[i]) \cap NamedChunkNames(orch.children[j]) = {}

Constructed == orch.phase \notin {"idle", "failed"}

\* C12: in every successfully constructed orchestrator the target keys, the
\* child compilation names and the entries of the name-to-profile map are
\* pairwise distinct per target; equal keys are rejected at construction.
C12_EqualKeysRejected ==
    Constructed =>
        /\ \A i, j \in DOMAIN orch.options :
              i # j => /\ orch.options[i].key # orch.options[j].key
                       /\ ChildName(orch.options[i]) # ChildName(orch.options[j])
        /\ orch.phase # "constructed"
              => Cardinality(DOMAIN orch.profiles) = Len(orch.options)

\* the defects of the constructor's arguments
ConstructionDefect(raw) ==
    \/ raw = <<>>
    \/ \E i \in DOMAIN raw : raw[i].browserProfile = ""
    \/ \E i \in DOMAIN raw : raw[i].plugins = "object"

\* no rule of the base configuration, at any depth, names babel-loader
NoBabelRule(base) ==
    \A i \in DOMAIN base.rules :
        LET rule == base.rules[i]
        IN  /\ rule.loader # BABEL_LOADER
            /\ rule.use # UseName(BABEL_LOADER)
            /\ rule.use.t = "array" =>
                  \A k \in DOMAIN rule.use.rules :
                      /\ rule.use.rules[k].loader # BABEL_LOADER
                      /\ rule.use.rules[k].use # UseName(BABEL_LOADER)

\* an instance of the parent's plugin list is in the plugin list of a child
SharedPluginInstance(options, base) ==
    \E i \in DOMAIN options :
        Range(base.plugins) \cap Range(ChildPlugins(options[i], base)) # {}

Applied == orch.phase \notin {"idle", "constructed"} /\ ~ConstructionDefect(orch.raw)

\* C14: with no target, a target without a profile, a plugins option that is
\* not callable, a base configuration without a babel-loader rule, or a plugin
\* instance in both the parent's and a child's plugin list, constructing or
\* applying the orchestrator throws and no child compilation is ever run.
C14_DefectsAreFatalBeforeChildrenRun ==
    (\/ ConstructionDefect(orch.raw)
     \/ Applied /\ (NoBabelRule(orch.base) \/ SharedPluginInstance(orch.options, orch.base)))
    => /\ orch.phase = "failed"
       /\ orch.err # "none"
       /\ orch.started = {}
       /\ orch.children = <<>>
       /\ orch.callback = "none"

\* apply throws for the second of two targets, whose factory hands out an
\* instance of the parent's plugin list
C14_Witness ==
    /\ orch.phase = "failed"
    /\ Len(orch.options) = 2
    /\ ~SharedPluginInstance(<<orch.options[1]>>, orch.base)
    /\ SharedPluginInstance(orch.options, orch.base)
    /\ ~NoBabelRule(orch.base)
    /\ orch.err = "plugin instance duplication"

\* C15: the callback of the make stage is invoked once, and only when no child
\* compilation is running any more, each having completed or failed.
C15_MakeIsFullBarrier ==
    /\ orch.callbacks <= 1
    /\ orch.callback # "none" => (orch.callbacks = 1 /\ orch.pending = {})

(***************************************************************************)
(* Merging the children's scripts: C20                                     *)
(***************************************************************************)
\* the indices of the chunks of a child that have a .js file, by ascending id
JsChunkOrder(child) ==
    LET js == { k \in DOMAIN child.chunks :
                  \E f \in Range(child.chunks[k].files) : f[Len(f)] = "js" }
    IN  CHOOSE order \in [1..Cardinality(js) -> js] :
            \A a, b \in 1..Cardinality(js) :
                a < b => child.chunks[order[a]].id < child.chunks[order[b]].id

\* the script file of each script-bearing chunk of a child, in sorted order
ScriptsOf(child) ==
    [a \in DOMAIN JsChunkOrder(child) |->
        CHOOSE f \in Range(child.chunks[JsChunkOrder(child)[a]].files) : f[Len(f)] = "js"]

RECURSIVE ScriptsFrom(_)
ScriptsFrom(i) ==
    IF i > Len(orch.children) THEN <<>>
    ELSE (IF StartsWithPrefix(orch.children[i].name) THEN ScriptsOf(orch.children[i])
          ELSE <<>>) \o ScriptsFrom(i + 1)

Merged == orch.phase \in {"merged", "tagged"}

\* C20: after the before-html-generation hook the script list is the parent's
\* list followed by the scripts of the prefixed children in their sorted order,
\* and no chunk entry of the parent is removed or overwritten.
C20_MergeOnlyAppends ==
    Merged =>
        /\ orch.assets.js = orch.assetsIn.js \o ScriptsFrom(1)
        /\ \A n \in DOMAIN orch.assetsIn.chunks :
              /\ n \in DOMAIN orch.assets.chunks
              /\ orch.assets.chunks[n] = orch.assetsIn.chunks[n]

(***************************************************************************)
(* Function externals: C13                                                 *)
(***************************************************************************)
RECURSIVE HasFunctionElement(_)
HasFunctionElement(externals) ==
    \/ externals.t = "function"
    \/ /\ externals.t = "array"
       /\ \E i \in DOMAIN externals.items : HasFunctionElement(externals.items[i])

\* C13: an engine configured with a function-valued externals element is
\* rejected at construction: it never tags or skips a request, so no module or
\* after-resolve step of such an engine ends without the error.
C13_FunctionExternalsRejected ==
    (HasFunctionElement(config.externals) /\ last.op \in {"targetModule", "afterResolve"})
        => last.err = "Error"

(***************************************************************************)
(* The after-resolve stage: C16, C17                                       *)
(***************************************************************************)
\* the target a dependency carries, directly or through its originating module
CarriedBy(dep) ==
    IF dep.babelTarget # NoTarget THEN dep.babelTarget ELSE dep.originTarget

\* the sources of a target in their order: tag, contextInfo, resolve data
\* context, dependencies
TargetSources(ctx) ==
    << getTargetFromTag(ctx.request), ctx.contextInfo, ctx.rrdContext >>
        \o [i \in DOMAIN ctx.dependencies |-> CarriedBy(ctx.dependencies[i])]

FirstAvailable(sources) ==
    IF \A i \in DOMAIN sources : sources[i] = NoTarget THEN NoTarget
    ELSE sources[CHOOSE i \in DOMAIN sources :
                    /\ sources[i] # NoTarget
                    /\ \A j \in 1..(i - 1) : sources[j] = NoTarget]

\* the request of the context is eligible, transpiled and has a marker loader
Targetable(ctx) ==
    /\ Eligible(ctx.request)
    /\ isTranspiledRequest(ctx, config.exclude) = "true"
    /\ \E i \in DOMAIN ctx.loaders : ctx.loaders[i].options.kind = "marker"

HeadOfLedger(pair) ==
    IF pair \in DOMAIN remainingTargets THEN remainingTargets[pair] ELSE AllTargets

\* C16: for an eligible, transpiled request with a marker loader the target is
\* the first available of tag, contextInfo, resolve data context, first
\* dependency carrying one; otherwise it is assigned blindly for (issuer,
\* request); the ledger is only touched when no earlier source has a target.
C16_TargetSourceOrder ==
    [][ (last'.op = "afterResolve" /\ last' # last /\ Targetable(last'.in)
            /\ last'.err \in {"none", "BlindTargetingError"})
        => IF FirstAvailable(TargetSources(last'.in)) # NoTarget
           THEN /\ last'.target = FirstAvailable(TargetSources(last'.in))
                /\ ~last'.blind
                /\ remainingTargets' = remainingTargets
           ELSE /\ last'.blind
                /\ last'.pair = <<last'.in.issuer, last'.in.request>>
                /\ IF HeadOfLedger(last'.pair) = <<>>
                   THEN last'.err = "BlindTargetingError"
                   ELSE /\ last'.target = Head(HeadOfLedger(last'.pair))
                        /\ remainingTargets'[last'.pair] = Tail(HeadOfLedger(last'.pair)) ]_vars

\* contextInfo, the resolve data context and a dependency carry targets, and
\* contextInfo's target, which differs from the others, is taken
C16_Witness ==
    /\ last.op = "afterResolve"
    /\ Targetable(last.in)
    /\ getTargetFromTag(last.in.request) = NoTarget
    /\ last.in.contextInfo = 1
    /\ last.in.rrdContext = NumTargets
    /\ \E i \in DOMAIN last.in.dependencies : CarriedBy(last.in.dependencies[i]) = NumTargets
    /\ last.target = 1
    /\ ~last.blind

\* C17: after the after-resolve stage a marker entry is removed only if no
\* target was determined for the module; when a target T was determined, by
\* tag, context, dependency or blind assignment, every marker entry of the
\* babel loader is replaced by the entry carrying T's options.
C17_LoadersFollowDeterminedTarget ==
    (last.op = "afterResolve" /\ last.err = "none" /\ last.target # NoTarget) =>
        /\ Len(last.out.loaders) = Len(last.in.loaders)
        /\ \A i \in DOMAIN last.in.loaders :
              (last.in.loaders[i].options.kind = "marker"
                    /\ last.in.loaders[i].loader = BabelLoaderPath)
                => /\ last.out.loaders[i].loader = BabelLoaderPath
                   /\ last.out.loaders[i].options =
                        [kind |-> "target", key |-> KeyOf(last.target)]

(***************************************************************************)
(* The per-target babel loader objects: C18                                *)
(***************************************************************************)
\* the entries of a loader chain that carry a target's options
TargetedEntries(loaders) ==
    {i \in DOMAIN loaders : loaders[i].options.kind = "target"}

\* C18: the babel loader object of a target key is created on the first use of
\* the key and never replaced; every installed per-target babel loader is the
\* cached object of its key, which carries that key's options, so that
\* different keys have different objects.
C18_OneLoaderObjectPerKey ==
    [][ /\ \A k \in DOMAIN babelLoaders :
              k \in DOMAIN babelLoaders' /\ babelLoaders'[k] = babelLoaders[k]
        /\ \A k \in DOMAIN babelLoaders' :
              /\ babelLoaders'[k].loader = BabelLoaderPath
              /\ babelLoaders'[k].options = [kind |-> "target", key |-> k]
        /\ (last'.op = "afterResolve" /\ last'.err = "none") =>
              \A i \in TargetedEntries(last'.out.loaders) :
                  /\ last'.out.loaders[i].options.key \in DOMAIN babelLoaders'
                  /\ last'.out.loaders[i] = babelLoaders'[last'.out.loaders[i].options.key]
      ]_vars

\* a marker entry of the second rule set was replaced by the object created
\* earlier from the first rule set's entry, while another key has its own object
C18_Witness ==
    /\ last.op = "afterResolve"
    /\ last.err = "none"
    /\ \E i \in DOMAIN last.in.loaders :
          IsMarker(last.in.loaders[i]) /\ last.in.loaders[i].ident = "b2"
    /\ \E i \in TargetedEntries(last.out.loaders) : last.out.loaders[i].ident = "b"
    /\ Cardinality(DOMAIN babelLoaders) > 1

(***************************************************************************)
(* Lazy route fragments: C19                                               *)
(***************************************************************************)
\* every eligible, untagged dependency of before is tagged with T in after, and
\* every other dependency is as it was
DependenciesTargeted(before, after, T) ==
    /\ Len(after) = Len(before)
    /\ \A i \in DOMAIN before :
          after[i].request =
              IF Eligible(before[i].request) /\ ~isTaggedRequest(before[i].request)
              THEN Tagged(before[i].request, KeyOf(T))
              ELSE before[i].request

C22_BlindAssignmentFrame ==
    [][ (last'.blind /\ last' # last) =>
          IF HeadOfLedger(last'.pair) = <<>>
          THEN /\ last'.err = "BlindTargetingError"
               /\ remainingTargets' = remainingTargets
          ELSE /\ last'.err # "BlindTargetingError"
               /\ last'.target = Head(HeadOfLedger(last'.pair))
               /\ DOMAIN remainingTargets' = DOMAIN remainingTargets \cup {last'.pair}
               /\ remainingTargets'[last'.pair] = Tail(HeadOfLedger(last'.pair))
               /\ \A p \in DOMAIN remainingTargets \ {last'.pair} :
                     remainingTargets'[p] = remainingTargets[p]
               /\ last'.pair \notin DOMAIN remainingTargets =>
                     /\ last'.target = 1
                     /\ Len(remainingTargets'[last'.pair]) = NumTargets - 1
      ]_vars

\* a new pair has just taken the first target of the full list while another
\* pair's list, already shorter, is as it was
C22_Witness ==
    /\ last.blind
    /\ last.err = "none"
    /\ last.target = 1
    /\ remainingTargets[last.pair] = Tail(AllTargets)
    /\ \E p \in DOMAIN remainingTargets \ {last.pair} :
          Len(remainingTargets[p]) < NumTargets - 1

(***************************************************************************)
(* Errors of lazy dependency resolution: C23                               *)
(***************************************************************************)
\* C23: the wrapped resolveDependencies calls the caller's callback exactly
\* once, and when the original resolveDependencies has reported an error the
\* caller's callback receives that error and no success.
C23_ResolveErrorsReachCaller ==
    last.op = "resolveDependencies" =>
        /\ last.out.calls = 1
        /\ last.in.err # "none" => last.out.err = last.in.err

(***************************************************************************)
(* Entry dependencies: C21                                                 *)
(***************************************************************************)
EndsWith(text, suffix) ==
    /\ Len(text) >= Len(suffix)
    /\ SubSeq(text, Len(text) - Len(suffix) + 1, Len(text)) = suffix

\* C21: the entry dependencies built for one request and original name and for
\* targets with different keys have different resource identifiers, different
\* names (the original name suffixed with the key) and different loc values
\* (ending in ":" + key), also when the request is the dev-server client and is
\* left untagged.
C21_EntryDependenciesNeverCollide ==
    last.op = "entryDependencies" =>
        /\ \A T \in Targets :
              /\ last.out[T].name = last.in.originalName \o <<KeyOf(T)>>
              /\ EndsWith(last.out[T].loc, <<":", KeyOf(T)>>)
              /\ IsDevServerClient(last.in.request) =>
                    last.out[T].request = last.in.request
        /\ \A T, U \in Targets :
              KeyOf(T) # KeyOf(U) =>
                  /\ getResourceIdentifier(last.out[T]) # getResourceIdentifier(last.out[U])
                  /\ last.out[T].name # last.out[U].name
                  /\ last.out[T].loc # last.out[U].loc

\* the dev-server client has one untagged request for all targets, and the
\* entry dependencies of two targets are told apart by their identifiers
C21_Witness ==
    /\ last.op = "entryDependencies"
    /\ IsDevServerClient(last.in.request)
    /\ last.out[1].request = last.out[NumTargets].request
    /\ ~isTaggedRequest(last.out[1].request)
    /\ getResourceIdentifier(last.out[1]) # getResourceIdentifier(last.out[NumTargets])

=============================================================================
